---- MODULE Spec2Model ----
(***************************************************************************)
(* A model of script/engine_inference.py: the SyncTRTInfer executor        *)
(* (construction, infer, release), the preprocess function and the         *)
(* __main__ entry point.                                                   *)
(*                                                                         *)
(* Every method is modelled statement by statement: pc[t] is the position  *)
(* of thread t inside the method it is running ("idle" between calls).     *)
(* Three specifications drive the same method steps:                       *)
(*   Spec      one caller that calls __init__, infer and release in any    *)
(*             order on one executor object;                               *)
(*   ConcSpec  two threads calling infer on one constructed executor;      *)
(*   MainSpec  the __main__ block.                                         *)
(* The external libraries (TensorRT, PyCUDA, NumPy, OpenCV) are the         *)
(* environment: each of their calls either returns or raises, chosen       *)
(* nondeterministically.                                                   *)
(***************************************************************************)
EXTENDS Integers, Sequences, FiniteSets, TLC

\* ---------------------------------------------------------------- bounds
\* Tensor contents are abstracted to one number per tensor: 0..MaxData.
MaxData == 1
\* Device addresses mem_alloc can hand out: 1..MaxAddr.
MaxAddr == 2

\* ------------------------------------------------------ fixed configuration
INPUT_SHAPE == <<1, 3, 224, 224>>
OUTPUT_SHAPE == <<1, 1000>>
\* np.float32: 4 bytes per element.
Float32Bytes == 4

\* trt.volume: the product of the dimensions.
RECURSIVE volume(_)
volume(shape) ==
    IF shape = <<>> THEN 1 ELSE Head(shape) * volume(Tail(shape))

Threads == {1, 2}
Data == 0 .. MaxData
Addrs == 1 .. MaxAddr
\* Contents of memory nobody has written yet.
Uninit == -1
\* What the compiled plan computes from an input: a fixed function of the
\* input's contents (the plan is an opaque, deterministic graph).
Net(x) == MaxData + 1 + x
\* Every value a buffer can hold once written.
Val == 0 .. (2 * MaxData + 1)
\* A read of memory: uninitialized memory reads as any value.
Read(v) == IF v = Uninit THEN Val ELSE {v}

\* Shapes and element types a caller may pass to infer.
Shapes == {INPUT_SHAPE, <<3, 224, 224>>, <<1, 3, 256, 256>>}
DTypes == {"float32", "float64", "uint8"}
Tensors == [shape : Shapes, dtype : DTypes, data : Data]
NoTensor == [shape |-> <<>>, dtype |-> "none", data |-> 0]
\* The frame of a running call: infer's input_data and, as a record of the
\* run, the statements of the call completed so far.
Frame(x) == [shape |-> x.shape, dtype |-> x.dtype, data |-> x.data, done |-> <<>>]
NoFrame == Frame(NoTensor)

\* The plan file ENGINE_PATH names, as the loader finds it.
PlanFiles == {"valid", "missing", "empty", "corrupt", "incompatible"}

\* An attribute of the executor that was never assigned.
NoHost == [set |-> FALSE, size |-> 0, nbytes |-> 0, data |-> Uninit]
NoDev == [set |-> FALSE, ptr |-> 0, nbytes |-> 0, valid |-> FALSE]

VARIABLES
    \* --- the SyncTRTInfer object's attributes
    engine,      \* "unset" | "engine" | "None"
    context,     \* "unset" | "context" | "None"
    h_input,     \* pinned host buffer
    h_output,
    d_input,     \* DeviceAllocation
    d_output,
    bindings,    \* <<>> when unset, else <<int(d_input), int(d_output)>>
    \* --- the device
    mem,         \* contents of device memory, per address
    live,        \* the addresses currently allocated on the device
    \* --- the running calls
    pc,          \* per thread: the statement it is at
    arg,         \* per thread: the running call's frame (infer's input_data)
    outcome,     \* per thread: how its last call ended (none while one runs)
    \* --- instrumentation
    ctor,        \* "new" | "running" | "failed" | "done": __init__ on the object
    stats,       \* counters and flags recorded as the steps run
    \* --- the entry point
    main         \* the __main__ block's position and locals

vars == <<engine, context, h_input, h_output, d_input, d_output, bindings,
          mem, live, pc, arg, outcome, ctor, stats, main>>

obj == <<engine, context, h_input, h_output, d_input, d_output, bindings>>
buffers == <<h_input, h_output, d_input, d_output, mem, live>>

\* op: the method; status: "ok" | "raise"; err: the exception; shape, val: the
\* tensor infer returned; trace: the statements the call ran, in order.
NoOutcome == [op |-> "none", status |-> "none", err |-> "none",
              shape |-> <<>>, val |-> Uninit, trace |-> <<>>]

\* A tensor the caller holds on to: retain is whether the caller keeps the
\* first tensor infer returns, base the storage the tensor reads, at_return
\* the contents it had when infer returned it, later whether an infer call
\* has returned since.
NoKept ==
    [retain |-> FALSE, held |-> FALSE, base |-> "none", at_return |-> Uninit,
     later |-> FALSE]

NoStats ==
    [ freed_in |-> 0,          \* device frees of d_input actually performed
      freed_out |-> 0,
      released |-> FALSE,      \* a release() call has completed
      release_calls |-> 0,     \* release() invocations
      allocs |-> 0,            \* host and device allocations performed
      copies |-> [t \in Threads |-> 0],      \* buffer copies performed by the call
      exec_ok |-> [t \in Threads |-> FALSE],  \* the running call's execute_v2 returned True
      overlap |-> [t \in Threads |-> FALSE],  \* another infer ran during this call
      uaf |-> FALSE,           \* a copy touched a freed device buffer
      after_release |-> FALSE, \* the call before the current one was a release() that returned
      plan |-> "none",         \* the plan file _load_engine found
      good |-> [t \in Threads |-> FALSE],     \* the call's input has the fixed shape and dtype
      given |-> [t \in Threads |-> 0],       \* the contents of the call's input
      kept |-> NoKept,         \* the tensor the first returning infer call handed out
      alloc_at |-> [d_input |-> 0, d_output |-> 0] ]  \* the addresses cuda.mem_alloc gave

\* constructs, infers: how often the script has called SyncTRTInfer() and
\* infer.
MainInit ==
    [ pc |-> "off", bound |-> FALSE, input_data |-> NoTensor,
      has_output |-> FALSE, printed |-> <<>>, constructs |-> 0, infers |-> 0 ]

Init ==
    /\ engine = "unset"
    /\ context = "unset"
    /\ h_input = NoHost
    /\ h_output = NoHost
    /\ d_input = NoDev
    /\ d_output = NoDev
    /\ bindings = <<>>
    /\ mem = [a \in Addrs |-> Uninit]
    /\ live = {}
    /\ pc = [t \in Threads |-> "idle"]
    /\ arg = [t \in Threads |-> NoFrame]
    /\ outcome = [t \in Threads |-> NoOutcome]
    /\ ctor = "new"
    /\ stats = NoStats
    /\ main = MainInit

\* ------------------------------------------------------- ending a call
\* The call of thread t returns normally; its frame (input_data) is gone.
Return(t, op, shape, val) ==
    /\ pc' = [pc EXCEPT ![t] = "idle"]
    /\ arg' = [arg EXCEPT ![t] = NoFrame]
    /\ outcome' = [outcome EXCEPT ![t] =
           [op |-> op, status |-> "ok", err |-> "none", shape |-> shape, val |-> val,
            trace |-> Append(arg[t].done, pc[t])]]

\* The call of thread t ends by raising err.
Raise(t, op, err) ==
    /\ pc' = [pc EXCEPT ![t] = "idle"]
    /\ arg' = [arg EXCEPT ![t] = NoFrame]
    /\ outcome' = [outcome EXCEPT ![t] =
           [op |-> op, status |-> "raise", err |-> err, shape |-> <<>>, val |-> Uninit,
            trace |-> Append(arg[t].done, pc[t])]]

\* The call of thread t goes on to the statement label.
Goto(t, label) ==
    /\ pc' = [pc EXCEPT ![t] = label]
    /\ arg' = [arg EXCEPT ![t].done = Append(@, pc[t])]
    /\ UNCHANGED outcome

Stat(field, value) == stats' = [stats EXCEPT ![field] = value]

\* ============================================================ __init__
\* A variant of InitSteps that allocates the buffers before loading the plan.
InitStepsAllocateFirst ==
    << "alloc_h_input", "alloc_h_output", "alloc_d_input", "alloc_d_output",
       "init_load", "init_context", "init_bindings", "init_print" >>

\* The statements of __init__ and of _allocate_fixed_memory, in program order.
InitSteps ==
    << "init_load", "init_context",
       "alloc_h_input", "alloc_h_output", "alloc_d_input", "alloc_d_output",
       "init_bindings", "init_print" >>

RECURSIVE After(_, _)
\* The statement that follows label l in the statement list steps.
After(steps, l) ==
    IF Len(steps) < 2 THEN "idle"
    ELSE IF Head(steps) = l THEN steps[2]
    ELSE After(Tail(steps), l)

NextInitStep(l) == After(InitSteps, l)

\* open(ENGINE_PATH, "rb") succeeds unless the file is absent.
open_ok(file) == file # "missing"

\* runtime.deserialize_cuda_engine: an engine, or None for bytes that are no
\* plan of this runtime version.
deserialize_cuda_engine(file) == IF file = "valid" THEN "engine" ELSE "None"

\* _load_engine: every failure inside the try block, the open's and the
\* "if not engine" RuntimeError alike, leaves as one RuntimeError.
load_engine(file) ==
    IF open_ok(file) /\ deserialize_cuda_engine(file) # "None"
    THEN [ok |-> TRUE, engine |-> deserialize_cuda_engine(file), err |-> "none"]
    ELSE [ok |-> FALSE, engine |-> "None", err |-> "RuntimeError"]

\* __init__ ends by raising: the object keeps what was assigned so far.
InitFail(t, err) ==
    /\ Raise(t, "init", err)
    /\ ctor' = "failed"

\* self.engine = self._load_engine()
init_load(t) ==
    /\ pc[t] = "init_load"
    /\ \E file \in PlanFiles :
         LET r == load_engine(file) IN
         /\ Stat("plan", file)
         /\ IF r.ok
            THEN /\ engine' = r.engine
                 /\ Goto(t, NextInitStep("init_load"))
                 /\ UNCHANGED ctor
            ELSE /\ InitFail(t, r.err)
                 /\ UNCHANGED engine
    /\ UNCHANGED <<context, buffers, bindings, main>>

\* self.context = self.engine.create_execution_context(): TensorRT returns a
\* context, or None when it cannot create one, or raises.
init_context(t) ==
    /\ pc[t] = "init_context"
    /\ IF engine # "engine"
       THEN /\ InitFail(t, "AttributeError")
            /\ UNCHANGED context
       ELSE \/ /\ context' = "context"
               /\ Goto(t, NextInitStep("init_context"))
               /\ UNCHANGED ctor
            \/ /\ context' = "None"
               /\ Goto(t, NextInitStep("init_context"))
               /\ UNCHANGED ctor
            \/ /\ InitFail(t, "TRTError")
               /\ UNCHANGED context
    /\ UNCHANGED <<engine, buffers, bindings, stats, main>>

\* cuda.pagelocked_empty(volume, np.float32): a pinned array of volume
\* elements with unspecified contents.
pagelocked_empty(n) ==
    [set |-> TRUE, size |-> n, nbytes |-> n * Float32Bytes, data |-> Uninit]

\* self.h_input = cuda.pagelocked_empty(input_volume, np.float32)
alloc_h_input(t) ==
    /\ pc[t] = "alloc_h_input"
    /\ \/ /\ h_input' = pagelocked_empty(volume(INPUT_SHAPE))
          /\ Stat("allocs", stats.allocs + 1)
          /\ Goto(t, NextInitStep("alloc_h_input"))
          /\ UNCHANGED ctor
       \/ /\ InitFail(t, "MemoryError")
          /\ UNCHANGED <<h_input, stats>>
    /\ UNCHANGED <<engine, context, h_output, d_input, d_output, mem, live,
                   bindings, main>>

\* self.h_output = cuda.pagelocked_empty(output_volume, np.float32)
alloc_h_output(t) ==
    /\ pc[t] = "alloc_h_output"
    /\ \/ /\ h_output' = pagelocked_empty(volume(OUTPUT_SHAPE))
          /\ Stat("allocs", stats.allocs + 1)
          /\ Goto(t, NextInitStep("alloc_h_output"))
          /\ UNCHANGED ctor
       \/ /\ InitFail(t, "MemoryError")
          /\ UNCHANGED <<h_output, stats>>
    /\ UNCHANGED <<engine, context, h_input, d_input, d_output, mem, live,
                   bindings, main>>

\* A variant of mem_alloc that takes its argument for an element count of
\* one-byte elements.
mem_alloc_elements(a, nbytes) ==
    [set |-> TRUE, ptr |-> a, nbytes |-> nbytes \div Float32Bytes, valid |-> TRUE]

\* cuda.mem_alloc(nbytes) at address a: a valid DeviceAllocation.
mem_alloc(a, nbytes) ==
    [set |-> TRUE, ptr |-> a, nbytes |-> nbytes, valid |-> TRUE]

\* self.d_input = cuda.mem_alloc(self.h_input.nbytes)
alloc_d_input(t) ==
    /\ pc[t] = "alloc_d_input"
    /\ IF ~h_input.set
       THEN /\ InitFail(t, "AttributeError")
            /\ UNCHANGED <<d_input, mem, live, stats>>
       ELSE \/ \E a \in Addrs \ live :
                 /\ d_input' = mem_alloc(a, h_input.nbytes)
                 /\ live' = live \cup {a}
                 /\ mem' = [mem EXCEPT ![a] = Uninit]
                 /\ stats' = [stats EXCEPT !.allocs = @ + 1, !.alloc_at.d_input = a]
                 /\ Goto(t, NextInitStep("alloc_d_input"))
                 /\ UNCHANGED ctor
            \/ /\ InitFail(t, "MemoryError")
               /\ UNCHANGED <<d_input, mem, live, stats>>
    /\ UNCHANGED <<engine, context, h_input, h_output, d_output, bindings, main>>

\* self.d_output = cuda.mem_alloc(self.h_output.nbytes)
alloc_d_output(t) ==
    /\ pc[t] = "alloc_d_output"
    /\ IF ~h_output.set
       THEN /\ InitFail(t, "AttributeError")
            /\ UNCHANGED <<d_output, mem, live, stats>>
       ELSE \/ \E a \in Addrs \ live :
                 /\ d_output' = mem_alloc(a, h_output.nbytes)
                 /\ live' = live \cup {a}
                 /\ mem' = [mem EXCEPT ![a] = Uninit]
                 /\ stats' = [stats EXCEPT !.allocs = @ + 1, !.alloc_at.d_output = a]
                 /\ Goto(t, NextInitStep("alloc_d_output"))
                 /\ UNCHANGED ctor
            \/ /\ InitFail(t, "MemoryError")
               /\ UNCHANGED <<d_output, mem, live, stats>>
    /\ UNCHANGED <<engine, context, h_input, h_output, d_input, bindings, main>>

\* A variant of the binding list with the output buffer first.
OutputFirst(din, dout) == <<dout.ptr, din.ptr>>

\* [int(self.d_input), int(self.d_output)]: the two device addresses, input
\* at index 0 and output at index 1.
BindingList(din, dout) == <<din.ptr, dout.ptr>>

\* self.bindings = [int(self.d_input), int(self.d_output)]
init_bindings(t) ==
    /\ pc[t] = "init_bindings"
    /\ IF ~d_input.set \/ ~d_output.set
       THEN /\ InitFail(t, "AttributeError")
            /\ UNCHANGED bindings
       ELSE /\ bindings' = BindingList(d_input, d_output)
            /\ Goto(t, NextInitStep("init_bindings"))
            /\ UNCHANGED ctor
    /\ UNCHANGED <<engine, context, buffers, stats, main>>

\* print(...): __init__ returns.
init_print(t) ==
    /\ pc[t] = "init_print"
    /\ Return(t, "init", <<>>, Uninit)
    /\ ctor' = "done"
    /\ UNCHANGED <<obj, mem, live, stats, main>>

InitStep(t) ==
    \/ init_load(t)
    \/ init_context(t)
    \/ alloc_h_input(t)
    \/ alloc_h_output(t)
    \/ alloc_d_input(t)
    \/ alloc_d_output(t)
    \/ init_bindings(t)
    \/ init_print(t)

\* =============================================================== infer
\* A variant of InferSteps that runs the plan before the input is on the device.
InferStepsExecuteFirst ==
    << "infer_validate", "infer_copyto", "infer_execute", "infer_htod",
       "infer_dtoh", "infer_return" >>

\* The statements of infer, in program order.
InferSteps ==
    << "infer_validate", "infer_copyto", "infer_htod", "infer_execute",
       "infer_dtoh", "infer_return" >>

NextInferStep(l) == After(InferSteps, l)

\* A variant of Mismatch that forgets the element type.
MismatchShapeOnly(x) == x.shape # INPUT_SHAPE

\* A variant of Mismatch that compares with the shape without the batch axis.
MismatchNoBatchAxis(x) == x.shape # Tail(INPUT_SHAPE) \/ x.dtype # "float32"

\* The condition of infer's guard: the input is not what the engine takes.
Mismatch(x) == x.shape # INPUT_SHAPE \/ x.dtype # "float32"

\* if input_data.shape != INPUT_SHAPE or input_data.dtype != np.float32: raise ValueError
infer_validate(t) ==
    /\ pc[t] = "infer_validate"
    /\ IF Mismatch(arg[t])
       THEN Raise(t, "infer", "ValueError")
       ELSE Goto(t, NextInferStep("infer_validate"))
    /\ UNCHANGED <<obj, mem, live, ctor, stats, main>>

Copied(t) == [stats EXCEPT !.copies[t] = @ + 1]

\* np.copyto(self.h_input, input_data.ravel()): the flattened input must have
\* h_input's element count; its values are cast to float32.
infer_copyto(t) ==
    /\ pc[t] = "infer_copyto"
    /\ IF ~h_input.set
       THEN /\ Raise(t, "infer", "AttributeError")
            /\ UNCHANGED <<h_input, stats>>
       ELSE IF volume(arg[t].shape) # h_input.size
       THEN /\ Raise(t, "infer", "ValueError")
            /\ UNCHANGED <<h_input, stats>>
       ELSE /\ h_input' = [h_input EXCEPT !.data = arg[t].data]
            /\ stats' = Copied(t)
            /\ Goto(t, NextInferStep("infer_copyto"))
    /\ UNCHANGED <<engine, context, h_output, d_input, d_output, mem, live,
                   bindings, ctor, main>>

\* The device buffer a host-to-device copy writes.
htod_target == d_input

\* cuda.memcpy_htod(self.d_input, self.h_input): the copy is done or PyCUDA
\* raises; on a freed allocation the driver may do either.
infer_htod(t) ==
    /\ pc[t] = "infer_htod"
    /\ IF ~htod_target.set
       THEN /\ Raise(t, "infer", "AttributeError")
            /\ UNCHANGED <<mem, stats>>
       ELSE \/ \E v \in Read(h_input.data) :
                 /\ mem' = [mem EXCEPT ![htod_target.ptr] = v]
                 /\ stats' = [Copied(t) EXCEPT !.uaf = @ \/ ~htod_target.valid]
                 /\ Goto(t, NextInferStep("infer_htod"))
            \/ /\ Raise(t, "infer", "CudaError")
               /\ UNCHANGED <<mem, stats>>
    /\ UNCHANGED <<obj, live, ctor, main>>

\* What execute_v2 leaves in the output binding when it reports failure:
\* the old contents or unspecified ones.
FailedOutput(old) == {old, Uninit}

\* self.context.execute_v2(bindings=self.bindings), its result discarded:
\* TensorRT returns True after running the plan on bindings[0] into
\* bindings[1], returns False when the execution failed, or raises.
infer_execute(t) ==
    /\ pc[t] = "infer_execute"
    /\ IF context # "context" \/ bindings = <<>>
       THEN /\ Raise(t, "infer", "AttributeError")
            /\ UNCHANGED <<mem, stats>>
       ELSE \/ \E v \in Read(mem[bindings[1]]) :
                 /\ mem' = [mem EXCEPT ![bindings[2]] = Net(v)]
                 /\ stats' = [stats EXCEPT !.exec_ok[t] = TRUE,
                                           !.uaf = @ \/ ~({bindings[1], bindings[2]} \subseteq live)]
                 /\ Goto(t, NextInferStep("infer_execute"))
            \/ \E v \in FailedOutput(mem[bindings[2]]) :
                 /\ mem' = [mem EXCEPT ![bindings[2]] = v]
                 /\ stats' = [stats EXCEPT !.exec_ok[t] = FALSE]
                 /\ Goto(t, NextInferStep("infer_execute"))
            \/ /\ Raise(t, "infer", "TRTError")
               /\ UNCHANGED <<mem, stats>>
    /\ UNCHANGED <<obj, live, ctor, main>>

\* The device buffer a device-to-host copy reads.
dtoh_source == d_output

\* cuda.memcpy_dtoh(self.h_output, self.d_output)
infer_dtoh(t) ==
    /\ pc[t] = "infer_dtoh"
    /\ IF ~h_output.set \/ ~dtoh_source.set
       THEN /\ Raise(t, "infer", "AttributeError")
            /\ UNCHANGED <<h_output, stats>>
       ELSE \/ \E v \in Read(mem[dtoh_source.ptr]) :
                 /\ h_output' = [h_output EXCEPT !.data = v]
                 /\ stats' = [Copied(t) EXCEPT !.uaf = @ \/ ~dtoh_source.valid]
                 /\ Goto(t, NextInferStep("infer_dtoh"))
            \/ /\ Raise(t, "infer", "CudaError")
               /\ UNCHANGED <<h_output, stats>>
    /\ UNCHANGED <<engine, context, h_input, d_input, d_output, mem, live,
                   bindings, ctor, main>>

\* A variant of reshape that hands out a new array holding a copy.
reshape_copy(a, shape) == [base |-> "copy", shape |-> shape]

\* numpy's reshape of a contiguous array: a view, a new shape over the storage
\* of a.
reshape(a, shape) == [base |-> a, shape |-> shape]

\* What the caller of infer holds once it returned tensor r with contents v.
Keep(r, v) ==
    IF ~stats.kept.retain
    THEN stats.kept
    ELSE IF stats.kept.held
    THEN [stats.kept EXCEPT !.later = TRUE]
    ELSE [stats.kept EXCEPT !.held = TRUE, !.base = r.base, !.at_return = v]

\* return self.h_output.reshape(OUTPUT_SHAPE): a view of h_output.
infer_return(t) ==
    /\ pc[t] = "infer_return"
    /\ IF ~h_output.set
       THEN /\ Raise(t, "infer", "AttributeError")
            /\ UNCHANGED stats
       ELSE IF volume(OUTPUT_SHAPE) # h_output.size
       THEN /\ Raise(t, "infer", "ValueError")
            /\ UNCHANGED stats
       ELSE LET r == reshape("h_output", OUTPUT_SHAPE)
            IN  \E v \in Read(h_output.data) :
                    /\ Return(t, "infer", r.shape, v)
                    /\ Stat("kept", Keep(r, v))
    /\ UNCHANGED <<obj, mem, live, ctor, main>>

InferStep(t) ==
    \/ infer_validate(t)
    \/ infer_copyto(t)
    \/ infer_htod(t)
    \/ infer_execute(t)
    \/ infer_dtoh(t)
    \/ infer_return(t)

\* ============================================================= release
\* The statements of release, in program order.
ReleaseSteps ==
    << "release_d_input", "release_d_output", "release_engine",
       "release_context", "release_print" >>

NextReleaseStep(l) == After(ReleaseSteps, l)

\* DeviceAllocation.free(): frees a valid allocation; PyCUDA raises on one
\* that was freed already.
free_ok(d) == d.valid

\* self.d_input.free()
release_d_input(t) ==
    /\ pc[t] = "release_d_input"
    /\ IF ~d_input.set
       THEN /\ Raise(t, "release", "AttributeError")
            /\ UNCHANGED <<d_input, live, stats>>
       ELSE IF ~free_ok(d_input)
       THEN /\ Raise(t, "release", "CudaError")
            /\ UNCHANGED <<d_input, live, stats>>
       ELSE /\ d_input' = [d_input EXCEPT !.valid = FALSE]
            /\ live' = live \ {d_input.ptr}
            /\ Stat("freed_in", stats.freed_in + 1)
            /\ Goto(t, NextReleaseStep("release_d_input"))
    /\ UNCHANGED <<engine, context, h_input, h_output, d_output, mem,
                   bindings, ctor, main>>

\* self.d_output.free()
release_d_output(t) ==
    /\ pc[t] = "release_d_output"
    /\ IF ~d_output.set
       THEN /\ Raise(t, "release", "AttributeError")
            /\ UNCHANGED <<d_output, live, stats>>
       ELSE IF ~free_ok(d_output)
       THEN /\ Raise(t, "release", "CudaError")
            /\ UNCHANGED <<d_output, live, stats>>
       ELSE /\ d_output' = [d_output EXCEPT !.valid = FALSE]
            /\ live' = live \ {d_output.ptr}
            /\ Stat("freed_out", stats.freed_out + 1)
            /\ Goto(t, NextReleaseStep("release_d_output"))
    /\ UNCHANGED <<engine, context, h_input, h_output, d_input, mem,
                   bindings, ctor, main>>

\* self.engine = None
release_engine(t) ==
    /\ pc[t] = "release_engine"
    /\ engine' = "None"
    /\ Goto(t, NextReleaseStep("release_engine"))
    /\ UNCHANGED <<context, buffers, bindings, ctor, stats, main>>

\* self.context = None
release_context(t) ==
    /\ pc[t] = "release_context"
    /\ context' = "None"
    /\ Goto(t, NextReleaseStep("release_context"))
    /\ UNCHANGED <<engine, buffers, bindings, ctor, stats, main>>

\* print(...): release returns.
release_print(t) ==
    /\ pc[t] = "release_print"
    /\ Return(t, "release", <<>>, Uninit)
    /\ Stat("released", TRUE)
    /\ UNCHANGED <<obj, mem, live, ctor, main>>

ReleaseStep(t) ==
    \/ release_d_input(t)
    \/ release_d_output(t)
    \/ release_engine(t)
    \/ release_context(t)
    \/ release_print(t)

\* ====================================================== starting a call
\* Whether the call that begins follows a release() that returned.
AfterRelease(t) == outcome[t].op = "release" /\ outcome[t].status = "ok"

\* A call of infer(x) begins: the per-call records are reset.
BeginInfer(t, x) ==
    /\ pc' = [pc EXCEPT ![t] = InferSteps[1]]
    /\ arg' = [arg EXCEPT ![t] = Frame(x)]
    /\ stats' = [stats EXCEPT
           !.copies[t] = 0,
           !.exec_ok[t] = FALSE,
           !.after_release = AfterRelease(t),
           !.good[t] = (x.shape = <<1, 3, 224, 224>> /\ x.dtype = "float32"),
           !.given[t] = x.data,
           !.overlap = [u \in Threads |->
               IF u = t THEN \E w \in Threads \ {t} : pc[w] # "idle"
               ELSE @[u] \/ pc[u] # "idle"]]
    /\ outcome' = [outcome EXCEPT ![t] = NoOutcome]

\* A call of release() begins.
BeginRelease(t) ==
    /\ pc' = [pc EXCEPT ![t] = ReleaseSteps[1]]
    /\ stats' = [stats EXCEPT !.release_calls = @ + 1,
                              !.after_release = AfterRelease(t)]
    /\ outcome' = [outcome EXCEPT ![t] = NoOutcome]
    /\ UNCHANGED arg

\* SyncTRTInfer() begins: __init__ runs on a new object.
BeginInit(t) ==
    /\ pc' = [pc EXCEPT ![t] = InitSteps[1]]
    /\ ctor' = "running"
    /\ outcome' = [outcome EXCEPT ![t] = NoOutcome]
    /\ UNCHANGED <<arg, stats>>

\* ================================================= Spec: one caller
\* The most release() calls the caller of Spec makes.
MaxReleaseCalls == 3

\* The caller constructs the executor.
CallInit ==
    /\ main.pc = "off"
    /\ pc[1] = "idle"
    /\ ctor = "new"
    /\ BeginInit(1)
    /\ UNCHANGED <<obj, mem, live, main>>

\* The caller calls infer on the object, whatever became of its construction.
CallInfer ==
    /\ main.pc = "off"
    /\ pc[1] = "idle"
    /\ ctor \in {"failed", "done"}
    /\ \E x \in Tensors : BeginInfer(1, x)
    /\ UNCHANGED <<obj, mem, live, ctor, main>>

\* The caller calls release on the object, whatever became of its construction.
CallRelease ==
    /\ main.pc = "off"
    /\ pc[1] = "idle"
    /\ ctor \in {"failed", "done"}
    /\ stats.release_calls < MaxReleaseCalls
    /\ BeginRelease(1)
    /\ UNCHANGED <<obj, mem, live, ctor, main>>

Next ==
    \/ CallInit
    \/ CallInfer
    \/ CallRelease
    \/ InitStep(1)
    \/ InferStep(1)
    \/ ReleaseStep(1)

Spec == Init /\ [][Next]_vars

\* ===================== RetainSpec: a caller that keeps a returned tensor
\* The caller of Spec, holding on to the first tensor infer returns.
RetainInit ==
    /\ Init!1 /\ Init!2 /\ Init!3 /\ Init!4 /\ Init!5 /\ Init!6 /\ Init!7
    /\ Init!8 /\ Init!9 /\ Init!10 /\ Init!11 /\ Init!12 /\ Init!13 /\ Init!15
    /\ stats = [NoStats EXCEPT !.kept.retain = TRUE]

\* The caller constructs the executor, calls infer any number of times and
\* release at most once.
RetainNext ==
    \/ CallInit
    \/ CallInfer
    \/ (stats.release_calls = 0 /\ CallRelease)
    \/ InitStep(1)
    \/ InferStep(1)
    \/ ReleaseStep(1)

RetainSpec == RetainInit /\ [][RetainNext]_vars

\* ============================================ ConcSpec: two infer callers
\* Thread t calls infer with a well-formed input on the constructed executor,
\* whether or not the other thread is inside infer.
ConcInfer(t) ==
    /\ main.pc = "off"
    /\ pc[t] = "idle"
    /\ ctor = "done"
    /\ \E x \in {y \in Tensors : ~Mismatch(y)} : BeginInfer(t, x)
    /\ UNCHANGED <<obj, mem, live, ctor, main>>

ConcNext ==
    \/ CallInit
    \/ InitStep(1)
    \/ \E t \in Threads : ConcInfer(t)
    \/ \E t \in Threads : InferStep(t)

ConcSpec == Init /\ [][ConcNext]_vars

\* ================================================== preprocess, __main__
\* Heights and widths of the image files.
Sizes == {100, 224, 256, 300}

\* The image file a path names: whether cv2.imread can decode it, its height
\* and width, and its pixels.
Images == [readable : BOOLEAN, h : Sizes, w : Sizes, data : Data]

\* MEAN and STD, in thousandths.
MEAN == <<485, 456, 406>>
STD == <<229, 224, 225>>

\* INPUT_SHAPE, MEAN and STD of the alternate backend.
onnx_INPUT_SHAPE == <<3, 224, 224>>
onnx_MEAN == <<485, 456, 406>>
onnx_STD == <<229, 224, 225>>

\* An array: its shape, element type, channel order, the top of its value
\* range, the normalization applied to it and its pixels.
None ==
    [shape |-> <<>>, dtype |-> "NoneType", order |-> "none", range |-> 0,
     norm |-> <<>>, data |-> 0]

\* cv2.imread(path): the H x W x 3 uint8 BGR array, or None when the file
\* cannot be read or decoded.
imread(f) ==
    IF f.readable
    THEN [shape |-> <<f.h, f.w, 3>>, dtype |-> "uint8", order |-> "BGR",
          range |-> 255, norm |-> <<>>, data |-> f.data]
    ELSE None

\* cv2.cvtColor(img, cv2.COLOR_BGR2RGB) on an array.
cvtColor(a) == [a EXCEPT !.order = IF @ = "BGR" THEN "RGB" ELSE "BGR"]

\* transforms.Resize(size): height and width become size.
Resize(a, size) == [a EXCEPT !.shape = <<size[1], size[2], a.shape[3]>>]

\* transforms.CenterCrop(size): the middle size[1] x size[2] window.
CenterCrop(a, size) == [a EXCEPT !.shape = <<size[1], size[2], a.shape[3]>>]

\* transforms.ToTensor(): H x W x C bytes to C x H x W floats in [0, 1].
ToTensor(a) ==
    [a EXCEPT !.shape = <<a.shape[3], a.shape[1], a.shape[2]>>,
              !.dtype = "float32", !.range = 1]

\* transforms.Normalize(mean, std): per channel (x - mean) / std.
Normalize(a, mean, std) == [a EXCEPT !.norm = <<mean, std>>]

\* a[np.newaxis, ...]: an axis of length 1 in front.
newaxis(a) == [a EXCEPT !.shape = <<1>> \o @]

\* np.expand_dims(a, axis): an axis of length 1 at position axis.
expand_dims(a, axis) ==
    [a EXCEPT !.shape = SubSeq(@, 1, axis) \o <<1>> \o SubSeq(@, axis + 1, Len(@))]

\* a.astype(dtype)
astype(a, dtype) == [a EXCEPT !.dtype = dtype]

\* The tensor infer is given: shape, element type and contents of an array.
AsTensor(a) == [shape |-> a.shape, dtype |-> a.dtype, data |-> a.data]

\* The steps of the preprocessing contract.
Contract ==
    << "decode", "rgb", "resize", "crop", "scale", "normalize", "batch", "cast" >>

\* What a preprocessing call came to: the array and tensor it returned or the
\* exception it raised, and the contract steps it entered.
PreResult(ok, err, a, steps) ==
    [ok |-> ok, err |-> err, array |-> a,
     tensor |-> IF ok THEN AsTensor(a) ELSE NoTensor, steps |-> steps]

\* preprocess(img_path): FileNotFoundError when cv2.imread returns None;
\* otherwise the array of the transform pipeline with the batch axis added in
\* front, as float32.
preprocess(img) ==
    LET read == imread(img) IN
    IF read = None
    THEN PreResult(FALSE, "FileNotFoundError", None, SubSeq(Contract, 1, 1))
    ELSE LET rgb == cvtColor(read)
             t == Normalize(ToTensor(CenterCrop(Resize(rgb, <<256, 256>>),
                                                <<224, 224>>)), MEAN, STD)
         IN  PreResult(TRUE, "none", astype(newaxis(t), "float32"), Contract)

\* preprocess_image(image_path) of the alternate backend: cv2.cvtColor is
\* applied to whatever cv2.imread returned and raises cv2.error on None.
preprocess_image(img) ==
    LET read == imread(img) IN
    IF read = None
    THEN PreResult(FALSE, "cv2.error", None, SubSeq(Contract, 1, 2))
    ELSE LET rgb == cvtColor(read)
             t == Normalize(ToTensor(CenterCrop(Resize(rgb, <<256, 256>>),
                                                Tail(onnx_INPUT_SHAPE))),
                            onnx_MEAN, onnx_STD)
         IN  PreResult(TRUE, "none", astype(expand_dims(t, 0), "float32"), Contract)

MainGoto(label) == main' = [main EXCEPT !.pc = label]

\* trt_infer = SyncTRTInfer()
m_construct ==
    /\ main.pc = "m_construct"
    /\ pc[1] = "idle"
    /\ BeginInit(1)
    /\ main' = [main EXCEPT !.pc = "m_construct_wait", !.constructs = @ + 1]
    /\ UNCHANGED <<obj, mem, live>>

\* The constructor has ended: trt_infer is assigned only when it returned.
m_constructed ==
    /\ main.pc = "m_construct_wait"
    /\ pc[1] = "idle"
    /\ IF outcome[1].status = "ok"
       THEN main' = [main EXCEPT !.pc = "m_preprocess", !.bound = TRUE]
       ELSE MainGoto("m_except")
    /\ UNCHANGED <<obj, mem, live, pc, arg, outcome, ctor, stats>>

\* input_data = preprocess(TEST_IMAGE); print(...)
m_preprocess ==
    /\ main.pc = "m_preprocess"
    /\ \E img \in Images :
         LET r == preprocess(img) IN
         IF r.ok
         THEN main' = [main EXCEPT !.pc = "m_infer", !.input_data = r.tensor]
         ELSE MainGoto("m_except")
    /\ UNCHANGED <<obj, mem, live, pc, arg, outcome, ctor, stats>>

\* output = trt_infer.infer(input_data)
m_infer ==
    /\ main.pc = "m_infer"
    /\ pc[1] = "idle"
    /\ BeginInfer(1, main.input_data)
    /\ main' = [main EXCEPT !.pc = "m_infer_wait", !.infers = @ + 1]
    /\ UNCHANGED <<obj, mem, live, ctor>>

\* infer has ended.
m_inferred ==
    /\ main.pc = "m_infer_wait"
    /\ pc[1] = "idle"
    /\ IF outcome[1].status = "ok"
       THEN main' = [main EXCEPT !.pc = "m_report", !.has_output = TRUE]
       ELSE MainGoto("m_except")
    /\ UNCHANGED <<obj, mem, live, pc, arg, outcome, ctor, stats>>

\* np.argmax, np.max and the three prints of the result.
m_report ==
    /\ main.pc = "m_report"
    /\ main' = [main EXCEPT !.pc = "m_finally", !.printed = Append(@, "result")]
    /\ UNCHANGED <<obj, mem, live, pc, arg, outcome, ctor, stats>>

\* A variant of the except block that prints the failure line and starts the
\* try block again.
m_except_retry ==
    /\ main.pc = "m_except"
    /\ main' = [main EXCEPT !.pc = "m_construct", !.printed = Append(@, "failure")]
    /\ UNCHANGED <<obj, mem, live, pc, arg, outcome, ctor, stats>>

\* except Exception as e: print the failure line.
m_except ==
    /\ main.pc = "m_except"
    /\ main' = [main EXCEPT !.pc = "m_finally", !.printed = Append(@, "failure")]
    /\ UNCHANGED <<obj, mem, live, pc, arg, outcome, ctor, stats>>

\* A variant of the finally block's condition that is never true.
NeverRelease == FALSE

\* The condition of the finally block: 'trt_infer' in locals().
ShouldRelease == main.bound

\* finally: if 'trt_infer' in locals(): trt_infer.release()
m_finally ==
    /\ main.pc = "m_finally"
    /\ pc[1] = "idle"
    /\ IF ShouldRelease
       THEN /\ BeginRelease(1)
            /\ MainGoto("m_release_wait")
       ELSE /\ MainGoto("m_exit")
            /\ UNCHANGED <<pc, arg, outcome, stats>>
    /\ UNCHANGED <<obj, mem, live, ctor>>

\* A variant of m_released that runs the finally block once more.
m_released_again ==
    /\ main.pc = "m_release_wait"
    /\ pc[1] = "idle"
    /\ MainGoto("m_finally")
    /\ UNCHANGED <<obj, mem, live, pc, arg, outcome, ctor, stats>>

\* release has ended: the script is over.
m_released ==
    /\ main.pc = "m_release_wait"
    /\ pc[1] = "idle"
    /\ MainGoto("m_exit")
    /\ UNCHANGED <<obj, mem, live, pc, arg, outcome, ctor, stats>>

MainStart ==
    /\ Init!1 /\ Init!2 /\ Init!3 /\ Init!4 /\ Init!5 /\ Init!6 /\ Init!7
    /\ Init!8 /\ Init!9 /\ Init!10 /\ Init!11 /\ Init!12 /\ Init!13 /\ Init!14
    /\ main = [MainInit EXCEPT !.pc = "m_construct"]

MainNext ==
    \/ m_construct
    \/ m_constructed
    \/ m_preprocess
    \/ m_infer
    \/ m_inferred
    \/ m_report
    \/ m_except
    \/ m_finally
    \/ m_released
    \/ InitStep(1)
    \/ InferStep(1)
    \/ ReleaseStep(1)

MainSpec == MainStart /\ [][MainNext]_vars

\* The script whose statements and library calls each return or raise: the
\* interpreter keeps running the one thread while it has a statement to run.
MainFairSpec == MainSpec /\ WF_vars(MainNext)

\* ============================== PreSpec: the two preprocessing functions
\* No preprocessing call made yet.
NoPre ==
    [ok |-> FALSE, err |-> "not called", array |-> None, tensor |-> NoTensor,
     steps |-> <<>>]

\* Any image file, with neither function called on it yet.
PreInit ==
    /\ Init!1 /\ Init!2 /\ Init!3 /\ Init!4 /\ Init!5 /\ Init!6 /\ Init!7
    /\ Init!8 /\ Init!9 /\ Init!10 /\ Init!11 /\ Init!12 /\ Init!13 /\ Init!14
    /\ \E f \in Images :
           main = [pc |-> "pre", img |-> f, primary |-> NoPre, alternate |-> NoPre]

\* preprocess is called on the image.
call_preprocess ==
    /\ main.pc = "pre"
    /\ main.primary = NoPre
    /\ main' = [main EXCEPT !.primary = preprocess(main.img)]
    /\ UNCHANGED <<obj, mem, live, pc, arg, outcome, ctor, stats>>

\* preprocess_image is called on the image.
call_preprocess_image ==
    /\ main.pc = "pre"
    /\ main.alternate = NoPre
    /\ main' = [main EXCEPT !.alternate = preprocess_image(main.img)]
    /\ UNCHANGED <<obj, mem, live, pc, arg, outcome, ctor, stats>>

PreNext ==
    \/ call_preprocess
    \/ call_preprocess_image

PreSpec == PreInit /\ [][PreNext]_vars

\* ================================================================ claims
\* The caller's last call has ended and was op.
Ended(t, op) == pc[t] = "idle" /\ outcome[t].op = op

\* C1: a release() that directly follows a release() that returned completes
\* without raising, and neither device buffer is ever freed twice.
C1_SecondReleaseSucceeds ==
    /\ (Ended(1, "release") /\ stats.after_release) => outcome[1].status = "ok"
    /\ stats.freed_in <= 1
    /\ stats.freed_out <= 1

\* C1's case: the second of two consecutive release() calls has ended.
C1_SecondReleaseEnded ==
    Ended(1, "release") /\ stats.after_release /\ ctor = "done"

\* C2: release() on an executor whose construction failed in the allocator,
\* after the plan was loaded and the handle created, completes without
\* raising and leaves no device buffer allocated.
C2_ReleaseAfterFailedInit ==
    (Ended(1, "release") /\ ctor = "failed" /\ engine # "unset" /\ context # "unset")
        => (outcome[1].status = "ok" /\ live = {})

\* C2's case: release() has ended on an executor whose allocation failed
\* after the input device buffer was allocated.
C2_ReleaseOnPartialEnded ==
    /\ Ended(1, "release")
    /\ ctor = "failed"
    /\ engine = "engine"
    /\ d_input.set
    /\ ~d_output.set

\* C3: whenever the entry point has exited, release was run, no allocated
\* device buffer is left unfreed and no plan or handle reference is held.
C3_ReleaseOnEveryExit ==
    main.pc = "m_exit" =>
        /\ stats.release_calls >= 1
        /\ live = {}
        /\ engine # "engine"
        /\ context # "context"

\* C3's case: the entry point has exited after a step failed.
C3_ExitAfterFailure ==
    main.pc = "m_exit" /\ main.printed = <<"failure">>

\* C4: the plan reference is never invalidated while the handle reference is
\* still held, and the handle reference is invalidated by release() only
\* after both device buffers were freed.
C4_LeafToRoot ==
    /\ ~(engine = "None" /\ context = "context")
    /\ (stats.release_calls > 0 /\ context = "None" /\ engine = "None")
           => (d_input.set => ~d_input.valid) /\ (d_output.set => ~d_output.valid)

\* C4's case: release() is past the statement that clears the plan reference.
C4_ReleasePastEngine ==
    pc[1] \in {"release_context", "release_print"} /\ ctor = "done"

\* C5: an infer call whose input has another shape than (1,3,224,224) or
\* another element type than float32 ends at its first statement by raising
\* ValueError, and that statement changes no host or device buffer.
C5_MismatchRejectedBeforeAnyCopy ==
    [][\A t \in Threads :
         (pc[t] = "infer_validate"
            /\ (arg[t].shape # <<1, 3, 224, 224>> \/ arg[t].dtype # "float32")
            /\ pc'[t] # pc[t])
         => /\ pc'[t] = "idle"
            /\ outcome'[t].status = "raise"
            /\ outcome'[t].err = "ValueError"
            /\ stats'.copies[t] = 0
            /\ UNCHANGED buffers]_vars

\* C5's case: infer has rejected a mismatched input on a constructed executor.
C5_MismatchRejected ==
    /\ Ended(1, "infer")
    /\ ctor = "done"
    /\ ~stats.good[1]
    /\ outcome[1].err = "ValueError"
    /\ stats.copies[1] = 0

\* C6: infer returns an output tensor only for a call whose execution step
\* succeeded.
C6_NoOutputAfterFailedExecution ==
    \A t \in Threads :
        (Ended(t, "infer") /\ outcome[t].status = "ok") => stats.exec_ok[t]

\* C6's case: on a constructed executor, infer has gone past an execution
\* step that reported failure, and has ended.
C6_FailedExecutionEnded ==
    /\ Ended(1, "infer")
    /\ ctor = "done"
    /\ stats.release_calls = 0
    /\ stats.copies[1] = 3
    /\ ~stats.exec_ok[1]

\* C7: after the allocator failed with the allocation error, no buffer it
\* allocated before the failure is still allocated or reachable.
C7_NoPartialBuffers ==
    (Ended(1, "init") /\ outcome[1].err = "MemoryError")
        => /\ ~h_input.set /\ ~h_output.set /\ ~d_input.set /\ ~d_output.set
           /\ live = {}

\* C7's case: the allocator has failed at the output device buffer.
C7_AllocationFailedLate ==
    Ended(1, "init") /\ outcome[1].err = "MemoryError" /\ stats.allocs = 3

\* C8: construction assigns the plan, then the handle, then the four buffers,
\* then the bindings, in that order; and once the plan file was found
\* missing, empty, corrupt or incompatible, construction has failed with no
\* handle created and no buffer allocated.
C8_LoadFirst ==
    /\ context # "unset" => engine # "unset"
    /\ h_input.set => context # "unset"
    /\ h_output.set => h_input.set
    /\ d_input.set => h_output.set
    /\ d_output.set => d_input.set
    /\ bindings # <<>> => d_output.set
    /\ stats.plan \in {"missing", "empty", "corrupt", "incompatible"}
         => /\ ctor = "failed"
            /\ Ended(1, "init") => outcome[1].err = "RuntimeError"
            /\ engine = "unset"
            /\ context = "unset"
            /\ stats.allocs = 0
            /\ ~h_input.set /\ ~h_output.set /\ ~d_input.set /\ ~d_output.set
            /\ live = {}

\* C8's case: construction has failed on a zero-byte plan file.
C8_EmptyPlanRejected ==
    Ended(1, "init") /\ stats.plan = "empty" /\ outcome[1].err = "RuntimeError"

\* The call of thread t was made with a well-formed input on a constructed
\* executor whose release() was never called, and has ended.
GoodCallEnded(t) ==
    /\ Ended(t, "infer")
    /\ ctor = "done"
    /\ stats.release_calls = 0
    /\ stats.good[t]

\* C9 as stated: every such call succeeds and returns shape (1,1000).
C9_GoodInputAlwaysSucceeds ==
    \A t \in Threads :
        GoodCallEnded(t) =>
            outcome[t].status = "ok" /\ outcome[t].shape = <<1, 1000>>

\* C9 as amended: such a call is never rejected as mismatched; when it
\* returns, it returns shape (1,1000); it fails only with the error a copy or
\* the execution call raised, or because no handle was created.
C9_GoodInputNeverRejected ==
    \A t \in Threads :
        GoodCallEnded(t) =>
            \/ outcome[t].status = "ok" /\ outcome[t].shape = <<1, 1000>>
            \/ outcome[t].status = "raise" /\ outcome[t].err \in {"CudaError", "TRTError"}
            \/ outcome[t].status = "raise" /\ outcome[t].err = "AttributeError"
                 /\ context = "None"

\* C9's case: a well-formed call has returned its output.
C9_GoodCallReturned ==
    GoodCallEnded(1) /\ outcome[1].status = "ok" /\ stats.exec_ok[1]

\* The value thread t's last call returned is the plan's output for the
\* input of that same call.
OwnOutput(t) == outcome[t].val = Net(stats.given[t])

\* C10, serialized half: a call that overlapped no other infer call and
\* returned, returned the output computed from its own input.
C10_SerializedCallsReturnOwnOutput ==
    \A t \in Threads :
        (Ended(t, "infer") /\ outcome[t].status = "ok" /\ ~stats.overlap[t])
            => OwnOutput(t)

\* C10, interleaved half: a call whose own execution step succeeded has
\* returned the output computed from the other call's different input.
C10_InterleavedCallReturnedOtherOutput ==
    \E t \in Threads : \E u \in Threads \ {t} :
        /\ Ended(t, "infer")
        /\ outcome[t].status = "ok"
        /\ stats.exec_ok[t]
        /\ stats.overlap[t]
        /\ stats.given[u] # stats.given[t]
        /\ outcome[t].val = Net(stats.given[u])

\* What remains of C10's serialized half: a call that overlapped no other
\* call and whose execution step succeeded returned its own output.
SerializedExecutedCallsReturnOwnOutput ==
    \A t \in Threads :
        (Ended(t, "infer") /\ outcome[t].status = "ok" /\ ~stats.overlap[t]
            /\ stats.exec_ok[t])
            => OwnOutput(t)

\* The order the steps of one infer call must have.
StepOrder ==
    << "infer_validate", "infer_copyto", "infer_htod", "infer_execute",
       "infer_dtoh", "infer_return" >>

\* Sequence p is a prefix of sequence q.
IsPrefix(p, q) == Len(p) <= Len(q) /\ p = SubSeq(q, 1, Len(p))

\* C11: an infer call that returns has run validation, the copy into the
\* input host buffer, the host-to-device copy, the execution, the
\* device-to-host copy and the return exactly once each and in this order;
\* a running call has completed exactly the steps before the one it is at;
\* and with its execution successful, the output it returns is the plan's
\* output for the input it was given.
C11_StepsInOrder ==
    \A t \in Threads :
        /\ (Ended(t, "infer") /\ outcome[t].status = "ok")
               => outcome[t].trace = StepOrder
        /\ Ended(t, "infer") => IsPrefix(outcome[t].trace, StepOrder)
        /\ (\E i \in 1 .. Len(StepOrder) : pc[t] = StepOrder[i])
               => /\ IsPrefix(arg[t].done, StepOrder)
                  /\ pc[t] = StepOrder[Len(arg[t].done) + 1]
        /\ (Ended(t, "infer") /\ outcome[t].status = "ok" /\ stats.exec_ok[t])
               => outcome[t].val = Net(stats.given[t])

\* C11's case: a call has returned after a successful execution.
C11_CallReturned ==
    /\ Ended(1, "infer")
    /\ outcome[1].status = "ok"
    /\ stats.exec_ok[1]
    /\ Len(outcome[1].trace) = 6

\* The contents a held tensor shows when read now.
Contents(k) == IF k.base = "h_output" THEN h_output.data ELSE k.at_return

\* C12: the tensor an infer call returned reads the executor's output host
\* buffer, so once a later infer call on the executor has returned, the
\* earlier tensor holds what the output host buffer holds, which is the
\* latest call's result.
C12_ReturnedTensorAliasesOutputBuffer ==
    /\ stats.kept.held => Contents(stats.kept) = h_output.data
    /\ (stats.kept.later /\ Ended(1, "infer") /\ outcome[1].status = "ok")
           => outcome[1].val \in Read(Contents(stats.kept))

\* C12's case: a later call has returned a result that differs from the one
\* the earlier call returned.
C12_EarlierResultOverwritten ==
    /\ stats.kept.later
    /\ Ended(1, "infer")
    /\ outcome[1].status = "ok"
    /\ stats.exec_ok[1]
    /\ h_output.data = outcome[1].val
    /\ stats.kept.at_return # outcome[1].val

\* C13: once construction has completed, whatever infer and release calls
\* follow, the binding sequence has exactly two entries, the first the
\* address of the input device buffer and the second the address of the
\* output device buffer, both the addresses the allocations returned; and no
\* step changes the sequence or either buffer's address.
C13_BindingsFixed ==
    /\ [](ctor = "done" =>
            /\ Len(bindings) = 2
            /\ bindings[1] = d_input.ptr
            /\ bindings[2] = d_output.ptr
            /\ bindings[1] = stats.alloc_at.d_input
            /\ bindings[2] = stats.alloc_at.d_output
            /\ bindings[1] # bindings[2])
    /\ [][ctor = "done" =>
            /\ bindings' = bindings
            /\ d_input'.ptr = d_input.ptr
            /\ d_output'.ptr = d_output.ptr]_vars

\* C13's case: on the constructed executor a release has completed and an
\* infer call after it has run as far as the execution.
C13_AfterReleaseAndInfer ==
    /\ ctor = "done"
    /\ stats.released
    /\ Ended(1, "infer")
    /\ Len(outcome[1].trace) >= 4
    /\ Len(bindings) = 2

\* Label p is a statement of infer.
InInfer(p) == \E i \in 1 .. Len(StepOrder) : p = StepOrder[i]

\* C14: no step of an infer call, entering it and leaving it by return or by
\* exception included, allocates or frees a buffer or changes which buffers
\* the executor holds, their sizes, the plan reference or the handle
\* reference; and from its allocation on each device buffer has the byte size
\* of its host buffer, which is the byte size of one tensor.
C14_InferKeepsBuffers ==
    /\ [][(InInfer(pc[1]) \/ InInfer(pc'[1])) =>
            /\ stats'.allocs = stats.allocs
            /\ stats'.freed_in = stats.freed_in
            /\ stats'.freed_out = stats.freed_out
            /\ live' = live
            /\ <<h_input'.set, h_input'.size, h_input'.nbytes>>
                   = <<h_input.set, h_input.size, h_input.nbytes>>
            /\ <<h_output'.set, h_output'.size, h_output'.nbytes>>
                   = <<h_output.set, h_output.size, h_output.nbytes>>
            /\ d_input' = d_input
            /\ d_output' = d_output
            /\ engine' = engine
            /\ context' = context]_vars
    /\ [](d_input.set =>
            /\ h_input.set
            /\ d_input.nbytes = h_input.nbytes
            /\ h_input.nbytes = volume(INPUT_SHAPE) * Float32Bytes)
    /\ [](d_output.set =>
            /\ h_output.set
            /\ d_output.nbytes = h_output.nbytes
            /\ h_output.nbytes = volume(OUTPUT_SHAPE) * Float32Bytes)

\* C14's case: on the constructed, unreleased executor an infer call has
\* failed after copying into the buffers.
C14_InferFailedAfterCopies ==
    /\ ctor = "done"
    /\ stats.release_calls = 0
    /\ Ended(1, "infer")
    /\ outcome[1].status = "raise"
    /\ stats.copies[1] >= 2
    /\ d_input.valid
    /\ d_output.valid

\* Both preprocessing functions have been called on the image.
BothCalled == main.pc = "pre" /\ main.primary # NoPre /\ main.alternate # NoPre

\* C15: on every image file preprocess and preprocess_image run the same
\* contract steps and come to the same outcome: the same array, or, when the
\* image cannot be decoded, the image-read error raised after the decode step
\* and before any transform step.
C15_SameContract ==
    BothCalled =>
        /\ main.primary = main.alternate
        /\ main.primary.ok =>
               /\ main.primary.steps = Contract
               /\ main.primary.tensor.shape = INPUT_SHAPE
               /\ main.primary.tensor.dtype = "float32"
               /\ main.primary.array.order = "RGB"
               /\ main.primary.array.range = 1
        /\ ~main.primary.ok =>
               /\ main.primary.err = "FileNotFoundError"
               /\ main.primary.steps = <<"decode">>

\* C15's case: both functions have been called on an image that cannot be
\* decoded.
C15_UndecodableImage == BothCalled /\ ~main.img.readable

\* On every image that can be decoded the two functions run all the contract
\* steps and return the same array.
DecodableImagesAgree ==
    (BothCalled /\ main.img.readable) =>
        /\ main.primary = main.alternate
        /\ main.primary.ok
        /\ main.primary.steps = Contract
        /\ main.primary.tensor.shape = INPUT_SHAPE

\* C16: in every run of the script the executor is constructed at most once
\* and infer is called at most once; once the failure line is printed only
\* the finally block and release run; and the run prints at most one of the
\* result and the failure line, exactly one by the time it exits, the result
\* only after infer returned.
C16_SingleShot ==
    /\ main.constructs <= 1
    /\ main.infers <= 1
    /\ Len(main.printed) <= 1
    /\ main.pc = "m_exit" => Len(main.printed) = 1
    /\ main.printed = <<"failure">> =>
           /\ main.pc \in {"m_finally", "m_release_wait", "m_exit"}
           /\ pc[1] = "idle" \/ \E i \in 1 .. Len(ReleaseSteps) : pc[1] = ReleaseSteps[i]
    /\ main.printed = <<"result">> =>
           /\ main.has_output
           /\ main.infers = 1
           /\ main.pc \in {"m_finally", "m_release_wait", "m_exit"}

\* C16's case: the run has exited after infer failed and the failure line was
\* printed.
C16_ExitAfterInferFailed ==
    /\ main.pc = "m_exit"
    /\ main.infers = 1
    /\ main.printed = <<"failure">>

\* C17: in every run of the script release is called at most once, and only
\* once the infer call, if there was one, has returned or raised; while infer
\* runs no release has been called and both device buffers are unfreed, so
\* no host-to-device copy, execution or device-to-host copy touches a freed
\* device buffer.
C17_ReleaseOnceAfterInfer ==
    /\ stats.release_calls <= 1
    /\ stats.release_calls = 1 =>
           /\ main.pc \in {"m_release_wait", "m_exit"}
           /\ ~InInfer(pc[1])
    /\ InInfer(pc[1]) =>
           /\ stats.release_calls = 0
           /\ stats.freed_in = 0
           /\ stats.freed_out = 0
           /\ d_input.valid
           /\ d_output.valid
    /\ ~stats.uaf

\* C17's case: the run has exited with release called after an infer call
\* that copied to and from the device and returned.
C17_ReleasedAfterInfer ==
    /\ main.pc = "m_exit"
    /\ main.infers = 1
    /\ main.has_output
    /\ stats.release_calls = 1
    /\ stats.released
    /\ stats.freed_in = 1
    /\ stats.freed_out = 1

\* C18: with every statement and library call returning or raising, every
\* run of the script reaches its end, and a run whose construction completed
\* ends with both device buffers freed, their addresses no longer allocated,
\* and the plan and handle references cleared.
C18_TerminatesReleased ==
    /\ <>(main.pc = "m_exit")
    /\ []((main.pc = "m_exit" /\ ctor = "done") =>
            /\ d_input.set /\ ~d_input.valid
            /\ d_output.set /\ ~d_output.valid
            /\ live = {}
            /\ engine = "None"
            /\ context = "None")

\* C18's case: a run whose construction completed has ended.
C18_ExitAfterConstruction ==
    /\ main.pc = "m_exit"
    /\ ctor = "done"
    /\ stats.released

====
